---- MODULE Spec2Model ----
(***************************************************************************)
(* Model of the messenger controllers:                                     *)
(*   app/controllers/message_controller.py      (MessageController)        *)
(*   app/controllers/conversation_controller.py (ConversationController)   *)
(* The three tables of the wide-column store are the state; every          *)
(* session.execute of send_message is one atomic step, so that concurrent  *)
(* sends interleave statement by statement; every read handler issues one  *)
(* query and is one step.                                                  *)
(***************************************************************************)
EXTENDS Integers, Sequences, FiniteSets, TLC

\* ---- bounds of the model ----
NumUsers == 2
NumConvs == 2
NumProcs == 2
MaxSends == 2
MaxClock == 1
MaxPage == 2
MaxLimit == 2

Users == 1..NumUsers
Convs == 1..NumConvs
Procs == 1..NumProcs
Contents == {"hi"}
Pages == 0..MaxPage
Limits == 0..MaxLimit
Timestamps == 0..(MaxClock + 1)

\* HTTP status codes raised by the handlers (a handler that returns answers 200)
NotFound == 404
GenericStoreError == 500

VARIABLES
    messages_by_conversation,  \* sequence of message rows, in the order the store returns them
    conversation_participants, \* set of (conversation_id, participant_id) rows
    conversations_by_user,     \* set of (user_id, conversation_id, participant_id, last_updated) rows
    pc,                        \* per request handler: 0 = idle, i = about to run the i-th write of send_message
    call,                      \* per request handler: message_data, message_id and timestamp of the running send
    clock,                     \* the wall clock read by datetime.utcnow()
    next_id,                   \* source of fresh uuid4() values
    resp,                      \* the response a handler has just produced (NoResp when there is none)
    calls                      \* record of the send_message calls that have returned or raised

vars == <<messages_by_conversation, conversation_participants, conversations_by_user,
          pc, call, clock, next_id, resp, calls>>

store == <<messages_by_conversation, conversation_participants, conversations_by_user>>

NoCall == [conversation_id |-> 0]
NoResp == [op |-> "none"]

\* ---- pure helpers of the handlers ----

Min(a, b) == IF a < b THEN a ELSE b
Max(a, b) == IF a > b THEN a ELSE b

\* Python list slicing seq[start:stop] (0-based, negative indices count from the end)
SliceIndex(i, n) == IF i < 0 THEN Max(i + n, 0) ELSE Min(i, n)

PySliceInclusive(seq, start, stop) ==
    LET lo == SliceIndex(start, Len(seq))
        hi == SliceIndex(stop + 1, Len(seq))
    IN  IF lo >= hi THEN << >> ELSE SubSeq(seq, lo + 1, hi)

PySlice(seq, start, stop) ==
    LET lo == SliceIndex(start, Len(seq))
        hi == SliceIndex(stop, Len(seq))
    IN  IF lo >= hi THEN << >> ELSE SubSeq(seq, lo + 1, hi)

\* offset = (page - 1) * limit
OffsetOffByOne(page, limit) == page * limit
Offset(page, limit) == (page - 1) * limit

\* has_more = len(items) == limit
HasMoreRowsFollow(items, limit, results, offset) == Len(results) > offset + limit
HasMore(items, limit, results, offset) == Len(items) = limit

\* CQL "LIMIT n": the first n rows of the result
Take(seq, n) == SubSeq(seq, 1, Min(n, Len(seq)))

\* message_data.receiver_id if user_id == message_data.sender_id else message_data.sender_id
OtherAlwaysReceiver(user_id, sender_id, receiver_id) == receiver_id
OtherParticipant(user_id, sender_id, receiver_id) ==
    IF user_id = sender_id THEN receiver_id ELSE sender_id

\* the last_updated value of the summary rows: the timestamp taken when the call started
SummaryTimestampAtWrite(c, now) == now
SummaryTimestamp(c, now) == c.timestamp

\* the order of the five store writes of send_message
WriteOrderSummaryFirst == <<"summary", "summary", "message", "participant", "participant">>
WriteOrder == <<"message", "participant", "participant", "summary", "summary">>

\* the loop variable of `for user_id in [sender_id, receiver_id]` at write i
LoopUser(c, i) ==
    IF i > 1 /\ WriteOrder[i - 1] = WriteOrder[i] THEN c.receiver_id ELSE c.sender_id

\* ---- the store ----

\* positions at which the store may place a new row of a partition: the
\* clustering order of messages_by_conversation is fixed by the schema, and no
\* query states an ORDER BY
InsertPositions(rows) == 1..(Len(rows) + 1)

InsertAtOverwrites(rows, pos, row) ==
    SubSeq(rows, 1, pos - 1) \o <<row>> \o SubSeq(rows, pos + 1, Len(rows))

InsertAt(rows, pos, row) ==
    SubSeq(rows, 1, pos - 1) \o <<row>> \o SubSeq(rows, pos, Len(rows))

\* primary key of a conversations_by_user row: one row per (user, conversation)
CbuKey(row) == <<row.user_id, row.conversation_id>>

\* INSERT INTO conversations_by_user: an upsert on the primary key
UpsertDropsOthers(rows, row) == {x \in rows : x.user_id # row.user_id} \cup {row}
Upsert(rows, row) == {x \in rows : CbuKey(x) # CbuKey(row)} \cup {row}

\* SELECT ... FROM messages_by_conversation WHERE conversation_id = c
SelectMessages(rows, c) == SelectSeq(rows, LAMBDA row : row.conversation_id = c)

\* ... AND timestamp < before_timestamp
SelectAtOrBefore(rows, before_timestamp) ==
    SelectSeq(rows, LAMBDA row : row.timestamp <= before_timestamp)
SelectBefore(rows, before_timestamp) ==
    SelectSeq(rows, LAMBDA row : row.timestamp < before_timestamp)

\* SELECT ... FROM conversations_by_user WHERE user_id = u, in clustering order
RECURSIVE SortByConversation(_)
SortByConversation(rows) ==
    IF rows = {} THEN << >>
    ELSE LET first == CHOOSE x \in rows : \A y \in rows : x.conversation_id <= y.conversation_id
         IN  <<first>> \o SortByConversation(rows \ {first})

SelectConversations(rows, u) == SortByConversation({x \in rows : x.user_id = u})

\* SELECT participant_id FROM conversation_participants WHERE conversation_id = c
SelectParticipants(rows, c) == {x.participant_id : x \in {y \in rows : y.conversation_id = c}}

\* ---- response objects ----

MessageResponse(row, conversation_id) ==
    [message_id |-> row.message_id, conversation_id |-> conversation_id,
     sender_id |-> row.sender_id, content |-> row.content, timestamp |-> row.timestamp]

ConversationResponse(row) ==
    [conversation_id |-> row.conversation_id, participant_id |-> row.participant_id,
     last_updated |-> row.last_updated]

MapSeq(seq, F(_)) == [i \in 1..Len(seq) |-> F(seq[i])]

Init ==
    /\ messages_by_conversation = << >>
    /\ conversation_participants = {}
    /\ conversations_by_user = {}
    /\ pc = [p \in Procs |-> 0]
    /\ call = [p \in Procs |-> NoCall]
    /\ clock = 0
    /\ next_id = 1
    /\ resp = NoResp
    /\ calls = {}

\* ---- the wall clock ----
Tick ==
    /\ clock < MaxClock
    /\ clock' = clock + 1
    /\ UNCHANGED <<store, pc, call, next_id, resp, calls>>

\* ---- MessageController.send_message ----

\* message_id = uuid4(); timestamp = datetime.utcnow()
SendStart(p) ==
    /\ pc[p] = 0
    /\ next_id <= MaxSends
    /\ \E s \in Users, r \in Users, c \in Convs, txt \in Contents :
         call' = [call EXCEPT ![p] =
                    [conversation_id |-> c, sender_id |-> s, receiver_id |-> r,
                     content |-> txt, message_id |-> next_id, timestamp |-> clock]]
    /\ next_id' = next_id + 1
    /\ pc' = [pc EXCEPT ![p] = 1]
    /\ resp' = NoResp
    /\ UNCHANGED <<store, clock, calls>>

\* the call returns MessageResponse after its last write
Finish(p) ==
    IF pc[p] = Len(WriteOrder)
    THEN /\ pc' = [pc EXCEPT ![p] = 0]
         /\ call' = [call EXCEPT ![p] = NoCall]
         /\ calls' = calls \cup {call[p] @@ [outcome |-> "returned"]}
         /\ resp' = [op |-> "send_message", status |-> 200,
                     message |-> MessageResponse(call[p], call[p].conversation_id)]
    ELSE /\ pc' = [pc EXCEPT ![p] = pc[p] + 1]
         /\ resp' = NoResp
         /\ UNCHANGED <<call, calls>>

InsertMessage(p) ==
    /\ pc[p] > 0
    /\ WriteOrder[pc[p]] = "message"
    /\ \E pos \in InsertPositions(messages_by_conversation) :
         messages_by_conversation' =
             InsertAt(messages_by_conversation, pos,
                      [conversation_id |-> call[p].conversation_id,
                       message_id |-> call[p].message_id,
                       sender_id |-> call[p].sender_id,
                       content |-> call[p].content,
                       timestamp |-> call[p].timestamp])
    /\ Finish(p)
    /\ UNCHANGED <<conversation_participants, conversations_by_user, clock, next_id>>

InsertParticipant(p) ==
    /\ pc[p] > 0
    /\ WriteOrder[pc[p]] = "participant"
    /\ conversation_participants' = conversation_participants \cup
           {[conversation_id |-> call[p].conversation_id,
             participant_id |-> LoopUser(call[p], pc[p])]}
    /\ Finish(p)
    /\ UNCHANGED <<messages_by_conversation, conversations_by_user, clock, next_id>>

InsertConversationByUser(p) ==
    /\ pc[p] > 0
    /\ WriteOrder[pc[p]] = "summary"
    /\ LET user_id == LoopUser(call[p], pc[p])
       IN  conversations_by_user' = Upsert(conversations_by_user,
               [user_id |-> user_id,
                conversation_id |-> call[p].conversation_id,
                participant_id |-> OtherParticipant(user_id, call[p].sender_id, call[p].receiver_id),
                last_updated |-> SummaryTimestamp(call[p], clock)])
    /\ Finish(p)
    /\ UNCHANGED <<messages_by_conversation, conversation_participants, clock, next_id>>

\* a session.execute of send_message raises: the exception propagates, nothing is rolled back
SendFail(p) ==
    /\ pc[p] > 0
    /\ pc' = [pc EXCEPT ![p] = 0]
    /\ call' = [call EXCEPT ![p] = NoCall]
    /\ calls' = calls \cup {call[p] @@ [outcome |-> "raised"]}
    /\ resp' = [op |-> "send_message", status |-> GenericStoreError]
    /\ UNCHANGED <<store, clock, next_id>>

\* ---- the read handlers ----

\* except Exception as e: raise HTTPException(status_code=500, detail=str(e))
\* (HTTPException is itself an Exception, so the clause also catches the 404)
ExceptClause(raised) == GenericStoreError

ErrorResponse(op, raised) == [op |-> op, status |-> ExceptClause(raised)]

\* ConversationController.get_user_conversations
GetUserConversations ==
    /\ \/ resp' = ErrorResponse("get_user_conversations", GenericStoreError)  \* session.execute raises
       \/ \E user_id \in Users, page \in Pages, limit \in Limits :
            LET offset == Offset(page, limit)
                results == SelectConversations(conversations_by_user, user_id)
                conversations == PySlice(results, offset, offset + limit)
            IN  resp' = [op |-> "get_user_conversations", status |-> 200,
                         user_id |-> user_id, page |-> page, limit |-> limit,
                         items |-> MapSeq(conversations, ConversationResponse),
                         has_more |-> HasMore(conversations, limit, results, offset)]
    /\ UNCHANGED <<store, pc, call, clock, next_id, calls>>

\* ConversationController.get_conversation
GetConversation ==
    /\ \/ resp' = ErrorResponse("get_conversation", GenericStoreError)  \* session.execute raises
       \/ \E conversation_id \in Convs :
            LET participants == SelectParticipants(conversation_participants, conversation_id)
            IN  IF participants = {}
                THEN resp' = ErrorResponse("get_conversation", NotFound)
                                @@ [conversation_id |-> conversation_id]
                ELSE \E first \in participants :
                       resp' = [op |-> "get_conversation", status |-> 200,
                                conversation_id |-> conversation_id,
                                participant_id |-> first, last_updated |-> "None"]
    /\ UNCHANGED <<store, pc, call, clock, next_id, calls>>

\* the page both message queries build from the rows the store returns under LIMIT offset + limit
MessagePage(op, conversation_id, matching, page, limit) ==
    LET offset == Offset(page, limit)
        results == Take(matching, offset + limit)
        messages == PySlice(results, offset, offset + limit)
    IN  IF offset + limit <= 0
        THEN ErrorResponse(op, GenericStoreError)   \* the store rejects a LIMIT that is not positive
        ELSE [op |-> op, status |-> 200, conversation_id |-> conversation_id,
              page |-> page, limit |-> limit,
              items |-> MapSeq(messages, LAMBDA row : MessageResponse(row, conversation_id)),
              has_more |-> HasMore(messages, limit, matching, offset)]

\* MessageController.get_conversation_messages
GetConversationMessages ==
    /\ \/ resp' = ErrorResponse("get_conversation_messages", GenericStoreError)
       \/ \E conversation_id \in Convs, page \in Pages, limit \in Limits :
            resp' = MessagePage("get_conversation_messages", conversation_id,
                                SelectMessages(messages_by_conversation, conversation_id),
                                page, limit)
    /\ UNCHANGED <<store, pc, call, clock, next_id, calls>>

\* MessageController.get_messages_before_timestamp
GetMessagesBeforeTimestamp ==
    /\ \/ resp' = ErrorResponse("get_messages_before_timestamp", GenericStoreError)
       \/ \E conversation_id \in Convs, before_timestamp \in Timestamps,
             page \in Pages, limit \in Limits :
            resp' = MessagePage("get_messages_before_timestamp", conversation_id,
                                SelectBefore(SelectMessages(messages_by_conversation, conversation_id),
                                             before_timestamp),
                                page, limit)
                    @@ [before_timestamp |-> before_timestamp]
    /\ UNCHANGED <<store, pc, call, clock, next_id, calls>>

\* ---- specifications ----

\* no send_message call is between its first statement and its return
NoSendRunning == \A q \in Procs : pc[q] = 0

\* The write path under the concurrency model of the service: request handlers
\* run concurrently on the shared session, without locks or transactions, so
\* the store writes of concurrent sends interleave statement by statement.
Next ==
    \/ Tick
    \/ \E p \in Procs : SendStart(p)
    \/ \E p \in Procs : InsertMessage(p)
    \/ \E p \in Procs : InsertParticipant(p)
    \/ \E p \in Procs : InsertConversationByUser(p)
    \/ \E p \in Procs : SendFail(p)

Spec == Init /\ [][Next]_vars

\* the response leaves the handler
Return ==
    /\ resp # NoResp
    /\ resp' = NoResp
    /\ UNCHANGED <<store, pc, call, clock, next_id, calls>>

\* no request is being served
Idle == NoSendRunning /\ resp = NoResp

\* The service with its requests served one at a time (no concurrent
\* writers): a request starts only when the one before it has returned.
SeqNext ==
    \/ Tick
    \/ Return
    \/ \E p \in Procs : Idle /\ SendStart(p)
    \/ \E p \in Procs : InsertMessage(p)
    \/ \E p \in Procs : InsertParticipant(p)
    \/ \E p \in Procs : InsertConversationByUser(p)
    \/ \E p \in Procs : SendFail(p)
    \/ Idle /\ GetUserConversations
    \/ Idle /\ GetConversation
    \/ Idle /\ GetConversationMessages
    \/ Idle /\ GetMessagesBeforeTimestamp

SeqSpec == Init /\ [][SeqNext]_vars

\* ---- properties ----

\* the conversations_by_user rows keyed by (user_id, conversation_id)
RowsOf(u, c) == {x \in conversations_by_user : x.user_id = u /\ x.conversation_id = c}

\* the send_message calls made so far: returned, raised or still running
AllSends == calls \cup {call[p] : p \in {q \in Procs : pc[q] > 0}}

Returned == {k \in calls : k.outcome = "returned"}

\* the latest send, when it has returned and no send has started since
LastSend == {k \in Returned : k.message_id = next_id - 1 /\ NoSendRunning}

IsPage(op) == resp.op = op /\ resp.status = 200

\* C1: get_conversation on a conversation with zero rows in
\* conversation_participants fails with NotFound (404), not with the generic
\* internal-error signal (500).
C1_NotFoundSignal ==
    (/\ resp.op = "get_conversation"
     /\ "conversation_id" \in DOMAIN resp
     /\ SelectParticipants(conversation_participants, resp.conversation_id) = {})
        => resp.status = NotFound

\* C2 as stated: with no concurrent writers and any prior store contents, a
\* completed send_message to c followed by get_conversation_messages(c, 1, 1),
\* with no write in between, returns exactly the message just sent.
C2_ReadYourWrite ==
    \A k \in LastSend :
        (/\ IsPage("get_conversation_messages")
         /\ resp.conversation_id = k.conversation_id
         /\ resp.page = 1 /\ resp.limit = 1)
            => resp.items = <<MessageResponse(k, k.conversation_id)>>

\* C2 as amended: the same read returns exactly the message just sent when the
\* conversation held no message row before the send.
C2_ReadYourFirstWrite ==
    \A k \in LastSend :
        (/\ IsPage("get_conversation_messages")
         /\ resp.conversation_id = k.conversation_id
         /\ resp.page = 1 /\ resp.limit = 1
         /\ Len(SelectMessages(messages_by_conversation, k.conversation_id)) = 1)
            => resp.items = <<MessageResponse(k, k.conversation_id)>>

C2_Witness ==
    \E k \in LastSend :
        /\ IsPage("get_conversation_messages")
        /\ resp.conversation_id = k.conversation_id
        /\ resp.page = 1 /\ resp.limit = 1
        /\ Len(SelectMessages(messages_by_conversation, k.conversation_id)) = 1
        /\ Len(messages_by_conversation) = 2
        /\ resp.items = <<MessageResponse(k, k.conversation_id)>>

\* the summary rows of conversation c that belong to the two parties of call k
SummaryRows(k) ==
    {x \in conversations_by_user :
        x.conversation_id = k.conversation_id /\ x.user_id \in {k.sender_id, k.receiver_id}}

SummaryRow(u, k, other) ==
    [user_id |-> u, conversation_id |-> k.conversation_id,
     participant_id |-> other, last_updated |-> k.timestamp]

\* the call whose MessageResponse is being returned
JustReturned == {k \in Returned : IsPage("send_message") /\ resp.message.message_id = k.message_id}

\* C3 as stated: every completed send_message(s, r, c) leaves exactly two
\* conversations_by_user rows for c, one keyed by s pointing at r and one keyed
\* by r pointing at s, both with the returned timestamp, for every s and r.
C3_TwoSummaryRows ==
    \A k \in JustReturned :
        /\ Cardinality(SummaryRows(k)) = 2
        /\ SummaryRow(k.sender_id, k, k.receiver_id) \in conversations_by_user
        /\ SummaryRow(k.receiver_id, k, k.sender_id) \in conversations_by_user
        /\ resp.message.timestamp = k.timestamp

\* C3 as amended: served without a concurrent send, a completed
\* send_message(s, r, c) with s # r leaves exactly those two rows; with s = r
\* it leaves a single row keyed by s whose participant_id is s.
C3_SummaryRowPerParty ==
    \A k \in JustReturned :
        /\ resp.message.timestamp = k.timestamp
        /\ SummaryRows(k) = {SummaryRow(k.sender_id, k, k.receiver_id),
                             SummaryRow(k.receiver_id, k, k.sender_id)}
        /\ Cardinality(SummaryRows(k)) = IF k.sender_id = k.receiver_id THEN 1 ELSE 2

C3_Witness ==
    \E k \in JustReturned :
        /\ k.sender_id # k.receiver_id
        /\ Cardinality(SummaryRows(k)) = 2
        /\ \E j \in Returned : j.sender_id = j.receiver_id /\ j.conversation_id # k.conversation_id

\* the stored message rows
MessageRows == {messages_by_conversation[i] : i \in DOMAIN messages_by_conversation}

\* the two summary rows of call k exist and point at each other's user
PointAtEachOther(k) ==
    /\ \E x \in RowsOf(k.sender_id, k.conversation_id) : x.participant_id = k.receiver_id
    /\ \E x \in RowsOf(k.receiver_id, k.conversation_id) : x.participant_id = k.sender_id

SameParties(j, k) == {j.sender_id, j.receiver_id} = {k.sender_id, k.receiver_id}

\* C4 as stated: in every reachable state, for every message row sent by A to
\* B in conversation c, conversations_by_user holds a row (A, c) pointing at B
\* and a row (B, c) pointing at A.
C4_SummaryForEveryMessage ==
    \A m \in MessageRows : \A k \in AllSends :
        k.message_id = m.message_id => PointAtEachOther(k)

\* C4 as amended: for every message row written by a send_message call that
\* has returned, rows keyed by (A, c) and by (B, c) exist, and they point at
\* each other when every send made on c was between A and B.
C4_SummaryForReturnedSend ==
    \A m \in MessageRows : \A k \in Returned :
        k.message_id = m.message_id =>
            /\ RowsOf(k.sender_id, k.conversation_id) # {}
            /\ RowsOf(k.receiver_id, k.conversation_id) # {}
            /\ (\A j \in AllSends : j.conversation_id = k.conversation_id => SameParties(j, k))
                   => PointAtEachOther(k)

C4_Witness ==
    \E k \in Returned, j \in Returned :
        /\ k.message_id # j.message_id
        /\ k.conversation_id = j.conversation_id
        /\ k.sender_id = j.receiver_id /\ k.receiver_id = j.sender_id
        /\ k.sender_id # k.receiver_id
        /\ PointAtEachOther(k)
        /\ Cardinality(MessageRows) = 2

\* ---- the pages of the three paginated reads ----

PagedOps == {"get_user_conversations", "get_conversation_messages", "get_messages_before_timestamp"}

IsAnyPage == resp.op \in PagedOps /\ resp.status = 200

\* the store's whole result sequence for the query that produced resp, as response objects
ResultSequence ==
    IF resp.op = "get_user_conversations"
    THEN MapSeq(SelectConversations(conversations_by_user, resp.user_id), ConversationResponse)
    ELSE LET ofConversation == SelectSeq(messages_by_conversation,
                                         LAMBDA row : row.conversation_id = resp.conversation_id)
             matching == IF resp.op = "get_messages_before_timestamp"
                         THEN SelectSeq(ofConversation,
                                        LAMBDA row : row.timestamp < resp.before_timestamp)
                         ELSE ofConversation
         IN  MapSeq(matching, LAMBDA row : MessageResponse(row, resp.conversation_id))

\* the 0-based position of the first row of the page
FirstPosition == (resp.page - 1) * resp.limit

\* C5: has_more of a returned page is true iff the number of returned items
\* equals limit; it is true when exactly limit rows remain and none follow,
\* and false when the page extends past the end of the result set.
C5_HasMoreIffFull ==
    IsAnyPage =>
        /\ resp.has_more <=> (Len(resp.items) = resp.limit)
        /\ (resp.page > 0 /\ resp.limit > 0 /\ Len(ResultSequence) = FirstPosition + resp.limit)
               => resp.has_more
        /\ (resp.page > 0 /\ resp.limit > 0 /\ Len(ResultSequence) < FirstPosition + resp.limit)
               => ~resp.has_more

C5_Witness ==
    /\ IsAnyPage
    /\ resp.page = 2 /\ resp.limit = 1
    /\ Len(ResultSequence) = 2
    /\ resp.has_more

\* C6: for page > 0 and limit > 0 a returned page never holds more than limit
\* items, and its items are exactly the rows at positions
\* [(page-1)*limit, (page-1)*limit + limit) of the store's result sequence.
C6_PageIsWindow ==
    (IsAnyPage /\ resp.page > 0 /\ resp.limit > 0) =>
        LET n == Max(0, Min(resp.limit, Len(ResultSequence) - FirstPosition))
        IN  /\ Len(resp.items) <= resp.limit
            /\ resp.items = [i \in 1..n |-> ResultSequence[FirstPosition + i]]

C6_Witness ==
    /\ IsAnyPage
    /\ resp.page = 2 /\ resp.limit = 1
    /\ Len(ResultSequence) = 2
    /\ resp.items = <<ResultSequence[2]>>
    /\ ResultSequence[1] # ResultSequence[2]

\* C7: get_messages_before_timestamp never returns a message whose timestamp
\* is greater than or equal to before_timestamp, nor a message of another
\* conversation.
C7_OnlyEarlierMessages ==
    IsPage("get_messages_before_timestamp") =>
        \A i \in DOMAIN resp.items :
            /\ resp.items[i].timestamp < resp.before_timestamp
            /\ \E m \in MessageRows :
                  /\ m.message_id = resp.items[i].message_id
                  /\ m.conversation_id = resp.conversation_id

C7_Witness ==
    /\ IsPage("get_messages_before_timestamp")
    /\ Len(resp.items) = 1
    /\ \E m \in MessageRows :
          /\ m.conversation_id = resp.conversation_id
          /\ m.timestamp >= resp.before_timestamp

\* ---- concurrent sends ----

SendsOn(c) == {k \in AllSends : k.conversation_id = c}

\* two or more sends were made on c, all of them between a and b, and all have returned
AllReturnedBetween(c, a, b) ==
    /\ a # b
    /\ Cardinality(SendsOn(c)) >= 2
    /\ \A k \in SendsOn(c) :
          /\ k \in Returned
          /\ {k.sender_id, k.receiver_id} = {a, b}

\* C8 as stated: once concurrent sends on one conversation between the same
\* two users have all completed, the two conversations_by_user rows of the
\* conversation carry the same last_updated.
C8_SharedLastUpdated ==
    \A c \in Convs, a \in Users, b \in Users :
        AllReturnedBetween(c, a, b) =>
            \A x \in RowsOf(a, c), y \in RowsOf(b, c) : x.last_updated = y.last_updated

\* C8 as amended: once they have all completed, each of the two rows exists,
\* points at the other user and carries the timestamp of one of those sends
\* (per row the last write wins), so the two values need not agree.
C8_LastUpdatedOfSomeSend ==
    \A c \in Convs, a \in Users, b \in Users :
        AllReturnedBetween(c, a, b) =>
            /\ RowsOf(a, c) # {} /\ RowsOf(b, c) # {}
            /\ \A x \in RowsOf(a, c) \cup RowsOf(b, c) :
                  /\ x.last_updated \in {k.timestamp : k \in SendsOn(c)}
                  /\ x.participant_id \in {a, b} \ {x.user_id}

C8_Witness ==
    \E c \in Convs, a \in Users, b \in Users :
        /\ AllReturnedBetween(c, a, b)
        /\ \E x \in RowsOf(a, c), y \in RowsOf(b, c) : x.last_updated # y.last_updated

\* C9 as stated: no stored row is ever deleted, message rows and participant
\* rows never change, and of a conversations_by_user row only last_updated
\* ever changes: the participant_id of an existing row (user_id,
\* conversation_id) never changes.
C9_OnlyLastUpdatedChanges ==
    [][/\ \A i \in DOMAIN messages_by_conversation :
             \E j \in DOMAIN messages_by_conversation' :
                 messages_by_conversation'[j] = messages_by_conversation[i]
       /\ conversation_participants \subseteq conversation_participants'
       /\ \A x \in conversations_by_user :
             \E y \in conversations_by_user' :
                 /\ y.user_id = x.user_id
                 /\ y.conversation_id = x.conversation_id
                 /\ y.participant_id = x.participant_id]_vars

\* C9 as amended: no stored row is ever deleted and message rows and
\* participant rows never change; a conversations_by_user row (user_id,
\* conversation_id) is overwritten whole by a send that names its user in its
\* conversation: last_updated always, and participant_id whenever that send
\* names another counterpart than the stored one.
C9_SummaryRowOverwritten ==
    [][/\ \A i \in DOMAIN messages_by_conversation :
             \E j \in DOMAIN messages_by_conversation' :
                 messages_by_conversation'[j] = messages_by_conversation[i]
       /\ Len(messages_by_conversation') <= Len(messages_by_conversation) + 1
       /\ conversation_participants \subseteq conversation_participants'
       /\ \A x \in conversations_by_user :
             \E y \in conversations_by_user' :
                 /\ y.user_id = x.user_id
                 /\ y.conversation_id = x.conversation_id
                 /\ y # x =>
                       \E p \in Procs :
                           /\ pc[p] > 0
                           /\ call[p].conversation_id = x.conversation_id
                           /\ y.last_updated = call[p].timestamp
                           /\ \/ x.user_id = call[p].sender_id
                                 /\ y.participant_id = call[p].receiver_id
                              \/ x.user_id = call[p].receiver_id
                                 /\ y.participant_id = call[p].sender_id]_vars

C9_Witness ==
    \E k \in Returned : \E x \in RowsOf(k.sender_id, k.conversation_id) :
        /\ x.participant_id # k.receiver_id
        /\ Cardinality(MessageRows) = 2

\* C10: in every reachable state, crashes mid-send and interleaved sends
\* included, every conversations_by_user row of conversation c with
\* last_updated t is matched by a message row of c with timestamp t and by the
\* conversation_participants row (c, user_id): a summary row is never visible
\* without its message.
C10_SummaryNeverWithoutMessage ==
    \A x \in conversations_by_user :
        /\ \E m \in MessageRows :
              m.conversation_id = x.conversation_id /\ m.timestamp = x.last_updated
        /\ [conversation_id |-> x.conversation_id, participant_id |-> x.user_id]
              \in conversation_participants

C10_Witness ==
    /\ \E k \in calls :
          /\ k.outcome = "raised"
          /\ k.sender_id # k.receiver_id
          /\ RowsOf(k.sender_id, k.conversation_id) # {}
          /\ RowsOf(k.receiver_id, k.conversation_id) = {}
    /\ \E p \in Procs : pc[p] > 1

====
